---- MODULE Spec2Model ----
(***************************************************************************)
(* Model of src/jsm/inspector/Inspector.js: the Inspector's per-frame      *)
(* statistics aggregation (getStatsData, resolveStats, resolveFrame), its  *)
(* two display cycle timers (updateCycle), its per-node canvas cache       *)
(* (getCanvasDataByNode, resolveViewer), its console (resolveConsole,      *)
(* resolveConsoleOnce, computeAsync) and the timestamp-query probe of      *)
(* setRenderer.                                                            *)
(*                                                                         *)
(* JavaScript objects are functions from property names to values; an      *)
(* object literal {} is the function with the empty domain, and a property *)
(* that was never assigned is a name missing from the domain.  Maps are    *)
(* functions from keys to values.  Times are integers: milliseconds for    *)
(* frame timestamps, hundredths of a second for the cycle timers.          *)
(***************************************************************************)
EXTENDS Integers, Sequences, FiniteSets, TLC

VARIABLES
    frames,         \* the renderer's frames, frames[id] the frame with frameId id
    statsData,      \* this.statsData: Map cid -> data object
    deltaTime,      \* this.deltaTime
    softDeltaTime,  \* this.softDeltaTime
    displayCycle,   \* this.displayCycle: the text and the graph cycle timer
    lastCall,       \* the latest resolveFrame call: its arguments and the calls it made
    cycleLog,       \* one entry per resolveFrame call that advanced the timers
    sample,         \* the sample tree handed to resolveStats (SpecStats)
    pc,             \* position of the resolveStats call (SpecStats)
    nodes,          \* the scene's nodes by identity: their id, name and cid
    canvasNodes,    \* this.canvasNodes: Map node -> canvasData
    allocated,      \* the number of objects getCanvasDataByNode has built
    lookup,         \* the latest getCanvasDataByNode call: its node and its result
    renderer,       \* the renderer of getRenderer(), Null before setRenderer
    consoleFunction,\* the function setConsoleFunction has installed
    probes,         \* the hasFeatureAsync promises: their result, whether their callback ran
    once,           \* this.once
    console,        \* the messages of the Console tab, in the order of addMessage
    viewer,         \* the Viewer tab: isVisible and the update calls it received
    currentNodes,   \* this.currentNodes, the nodes selected for the viewer
    onceLog,        \* one entry per resolveConsoleOnce call
    viewerCall      \* the latest resolveViewer call and the number of calls

vars == <<frames, statsData, deltaTime, softDeltaTime, displayCycle,
          lastCall, cycleLog, sample, pc, nodes, canvasNodes, allocated, lookup,
          renderer, consoleFunction, probes, once, console, viewer,
          currentNodes, onceLog, viewerCall>>

\* the renderer, the console and the Viewer tab
uiVars == <<renderer, consoleFunction, probes, once, console, viewer,
            currentNodes, onceLog, viewerCall>>

\* the state of the viewer's canvas cache and of the nodes it is asked about
viewerVars == <<nodes, canvasNodes, allocated, lookup>>

(***************************************************************************)
(* Bounds of the model.                                                    *)
(***************************************************************************)
MaxCid == 3          \* SpecStats: the cids of a sample tree
MaxNodes == 3        \* SpecStats: the nodes of a sample tree
MaxFrames == 2       \* Spec: the frames the renderer produces
MaxFrameNodes == 2   \* Spec: the sample nodes of all frames together
MaxCalls == 2        \* Spec: the resolveFrame calls that resolve a frame
MaxCycleFrames == 3  \* SpecCycle: the frames the renderer produces
MaxCycleCalls == 4   \* SpecCycle: the resolveFrame calls that resolve a frame
MaxViewerFrames == 2 \* SpecViewer: the frames the renderer produces
MaxViewerCalls == 1  \* SpecViewer: the resolveFrame calls that resolve a frame
MaxOnceCalls == 3    \* SpecConsole: the resolveConsoleOnce calls
MaxConsoleProbes == 1 \* SpecConsole: the setRenderer calls that start a probe
MaxResolveViewerCalls == 3 \* SpecResolveViewer: the resolveViewer calls
MaxProbes == 1       \* SpecProbe: the setRenderer calls that start a probe
MaxProbeFrames == 2  \* SpecProbe: the frames the renderer produces
MaxProbeCalls == 1   \* SpecProbe: the resolveFrame calls that resolve a frame
MaxProbeViewerCalls == 1 \* SpecProbe: the resolveViewer calls

Cids == 1 .. MaxCid

\* the cids of the samples of a frame (Spec)
FrameCids == {1, 2}

\* <<cpu, gpu>> measurements a sample node may carry.
Samples == {<<2, 3>>, <<15, 10>>}

(***************************************************************************)
(* Sample trees: a node is [cid, cpu, gpu, children], children an ordered  *)
(* sequence of nodes.  TreesOfSize(cids, n) are the trees of exactly n     *)
(* nodes with cids of the given set, ForestsOfSize(cids, n) the child      *)
(* sequences of n nodes in all.                                            *)
(***************************************************************************)
RECURSIVE TreesOfSize(_, _), ForestsOfSize(_, _)

TreesOfSize(cids, n) ==
    IF n < 1 THEN {}
    ELSE { [cid |-> c, cpu |-> s[1], gpu |-> s[2], children |-> f] :
             c \in cids, s \in Samples, f \in ForestsOfSize(cids, n - 1) }

ForestsOfSize(cids, n) ==
    IF n = 0 THEN { <<>> }
    ELSE UNION { { <<t>> \o f : t \in TreesOfSize(cids, k),
                                f \in ForestsOfSize(cids, n - k) } :
                 k \in 1 .. n }

SampleTrees == UNION { TreesOfSize(Cids, n) : n \in 1 .. MaxNodes }

(***************************************************************************)
(* JavaScript objects.                                                     *)
(***************************************************************************)
\* {}
EmptyObject == [k \in {} |-> 0]

\* obj.key = value
SetProp(obj, key, value) == (key :> value) @@ obj

\* obj.key === true
IsTrue(obj, key) == key \in DOMAIN obj /\ obj[key] = TRUE

(***************************************************************************)
(* getStatsData( cid ): the store after the call; the object returned is   *)
(* the store's value at cid.                                               *)
(***************************************************************************)
\* getStatsData making a new data object on every call
getStatsData_Renew(sd, cid) == (cid :> EmptyObject) @@ sd

getStatsData(sd, cid) ==
    IF cid \in DOMAIN sd THEN sd ELSE (cid :> EmptyObject) @@ sd

(***************************************************************************)
(* resolveStats( stats ): the store after the call.  The data objects are  *)
(* shared through the store, so a child carrying the cid of the node being *)
(* aggregated writes the very object the node accumulates into.            *)
(***************************************************************************)
RECURSIVE resolveStats(_, _), resolveStatsChildren(_, _, _)

\* lines 229-232: the block guarded by data.initialized !== true
seedStats(data, stats) ==
    IF ~ IsTrue(data, "initialized")
    THEN SetProp(SetProp(SetProp(data, "cpu", stats.cpu), "gpu", stats.gpu),
                 "initialized", TRUE)
    ELSE data

\* the node's own measurements added to what the data object holds
ownStats_Accumulate(data, stats) ==
    LET d1 == SetProp(data, "cpu", stats.cpu +
                        (IF "total" \in DOMAIN data THEN data.cpu ELSE 0))
        d2 == SetProp(d1, "gpu", stats.gpu +
                        (IF "total" \in DOMAIN data THEN data.gpu ELSE 0))
    IN  SetProp(d2, "total", d2.cpu + d2.gpu)

\* lines 238-240: the node's own measurements
ownStats(data, stats) ==
    LET d1 == SetProp(data, "cpu", stats.cpu)
        d2 == SetProp(d1, "gpu", stats.gpu)
    IN  SetProp(d2, "total", d2.cpu + d2.gpu)

\* addChildStats without line 252: the child's total is not added
addChildStats_NoTotal(sd, cid, childCid) ==
    LET s1 == [sd EXCEPT ![cid] = SetProp(@, "cpu", @.cpu + sd[childCid].cpu)]
    IN  [s1 EXCEPT ![cid] = SetProp(@, "gpu", @.gpu + s1[childCid].gpu)]

\* lines 248-252: add the child's data, read from the store, one field at a time
addChildStats(sd, cid, childCid) ==
    LET s1 == [sd EXCEPT ![cid] = SetProp(@, "cpu", @.cpu + sd[childCid].cpu)]
        s2 == [s1 EXCEPT ![cid] = SetProp(@, "gpu", @.gpu + s1[childCid].gpu)]
    IN  [s2 EXCEPT ![cid] = SetProp(@, "total", @.total + s2[childCid].total)]

\* lines 244-254: the loop over stats.children, from child i on
resolveStatsChildren(sd, stats, i) ==
    IF i > Len(stats.children) THEN sd
    ELSE LET child == stats.children[i]
             s1 == resolveStats(sd, child)
             s2 == getStatsData(s1, child.cid)
         IN  resolveStatsChildren(addChildStats(s2, stats.cid, child.cid), stats, i + 1)

resolveStats(sd, stats) ==
    LET s0 == getStatsData(sd, stats.cid)
        s1 == [s0 EXCEPT ![stats.cid] = ownStats(seedStats(@, stats), stats)]
    IN  resolveStatsChildren(s1, stats, 1)

(***************************************************************************)
(* Program constants.  The cycle timers and the host's per-frame delta     *)
(* (this.nodeFrame.deltaTime) are in hundredths of a second.               *)
(***************************************************************************)
EASE_FACTOR == 10
TextDuration == 25
GraphDuration == 5

(***************************************************************************)
(* The state after the constructor.                                        *)
(***************************************************************************)
\* the constructor with the two durations exchanged
NewDisplayCycle_Swapped ==
    [ text  |-> [needsUpdate |-> FALSE, duration |-> GraphDuration, time |-> 0],
      graph |-> [needsUpdate |-> FALSE, duration |-> TextDuration,  time |-> 0] ]

NewDisplayCycle ==
    [ text  |-> [needsUpdate |-> FALSE, duration |-> TextDuration,  time |-> 0],
      graph |-> [needsUpdate |-> FALSE, duration |-> GraphDuration, time |-> 0] ]

\* line 30: the Viewer tab, hidden, before any update call
HiddenViewer == [isVisible |-> FALSE, updates |-> 0, canvasDataList |-> <<>>]

\* no resolveViewer call yet
NoViewerCall ==
    [ calls |-> 0, returned |-> "never", nodes |-> <<>>, fails |-> {},
      failed |-> 0, refused |-> 0 ]

\* no resolveFrame call yet
NoCall == [frameId |-> 0, dt |-> 0, returned |-> "never", calls |-> <<>>]

Constructed ==
    /\ deltaTime = 0
    /\ softDeltaTime = 0
    /\ statsData = <<>>
    /\ displayCycle = NewDisplayCycle
    /\ lastCall = NoCall
    /\ cycleLog = <<>>
    /\ canvasNodes = <<>>
    /\ allocated = 0
    /\ once = EmptyObject
    /\ console = <<>>
    /\ viewer = HiddenViewer
    /\ onceLog = <<>>
    /\ viewerCall = NoViewerCall

(***************************************************************************)
(* The host (RendererInspector and the renderer): frames are appended with *)
(* increasing frameId and non-decreasing startTime, and looked up by id.   *)
(***************************************************************************)
Null == [null |-> TRUE]

\* no renderer has been set and no node is selected
Detached ==
    /\ renderer = Null
    /\ consoleFunction = "console"
    /\ probes = <<>>
    /\ currentNodes = <<>>

getFrameById(fs, id) == IF id \in DOMAIN fs THEN fs[id] ELSE Null

\* the lookup of line 335 made with the frame's own id
nextFrameOf_Self(fs, frame) == getFrameById(fs, frame.frameId)

\* line 335: this.getFrameById( frame.frameId + 1 )
nextFrameOf(fs, frame) == getFrameById(fs, frame.frameId + 1)

RECURSIVE NodeCount(_), ForestNodeCount(_)

NodeCount(t) == 1 + ForestNodeCount(t.children)

ForestNodeCount(f) ==
    IF f = <<>> THEN 0 ELSE NodeCount(Head(f)) + ForestNodeCount(Tail(f))

RECURSIVE FramesNodeCount(_)

FramesNodeCount(fs) ==
    IF fs = <<>> THEN 0
    ELSE ForestNodeCount(Head(fs).children) + FramesNodeCount(Tail(fs))

\* the renderer finishes a frame whose samples are children, inc ms after the last one
addFrame(children, inc) ==
    /\ frames' = Append(frames,
                   [ frameId   |-> Len(frames) + 1,
                     startTime |-> IF frames = <<>> THEN 0
                                   ELSE frames[Len(frames)].startTime + inc,
                     children  |-> children ])
    /\ UNCHANGED <<statsData, deltaTime, softDeltaTime, displayCycle,
                   lastCall, cycleLog, sample, pc>>
    /\ UNCHANGED viewerVars
    /\ UNCHANGED uiVars

(***************************************************************************)
(* ease( target, current, deltaTime, duration ) of ui/utils.js: move       *)
(* target towards current by the fraction min( 1, deltaTime / duration ).  *)
(***************************************************************************)
Min(a, b) == IF a < b THEN a ELSE b

ease(target, current, dt, duration) ==
    IF duration <= 0 THEN current
    ELSE target + ((current - target) * Min(dt, duration)) \div duration

(***************************************************************************)
(* updateCycle( cycle ), dt being this.nodeFrame.deltaTime.                *)
(***************************************************************************)
\* updateCycle firing only once the time has passed the duration
updateCycle_Strict(cycle, dt) ==
    LET c1 == [cycle EXCEPT !.time = @ + dt]
    IN  IF c1.time > c1.duration
        THEN [c1 EXCEPT !.needsUpdate = TRUE, !.time = 0]
        ELSE c1

\* updateCycle keeping the overshoot: time -= duration instead of time = 0
updateCycle_Carry(cycle, dt) ==
    LET c1 == [cycle EXCEPT !.time = @ + dt]
    IN  IF c1.time >= c1.duration
        THEN [c1 EXCEPT !.needsUpdate = TRUE, !.time = @ - c1.duration]
        ELSE c1

updateCycle(cycle, dt) ==
    LET c1 == [cycle EXCEPT !.time = @ + dt]
    IN  IF c1.time >= c1.duration
        THEN [c1 EXCEPT !.needsUpdate = TRUE, !.time = 0]
        ELSE c1

(***************************************************************************)
(* resolveFrame( frame ), in the order of its statements.                  *)
(***************************************************************************)
\* lines 339-341
zeroFrame(frame) ==
    SetProp(SetProp(SetProp(frame, "cpu", 0), "gpu", 0), "total", 0)

\* lines 349-351: frame.cpu += data.cpu, ...
addFrameStats(frame, data) ==
    LET f1 == SetProp(frame, "cpu", frame.cpu + data.cpu)
        f2 == SetProp(f1, "gpu", f1.gpu + data.gpu)
    IN  SetProp(f2, "total", f2.total + data.total)

\* lines 343-353: the loop over frame.children from child i on; the pair of
\* the store and the frame after it
RECURSIVE resolveFrameChildren(_, _, _)

resolveFrameChildren(sd, frame, i) ==
    IF i > Len(frame.children) THEN [statsData |-> sd, frame |-> frame]
    ELSE LET stats == frame.children[i]
             s1 == resolveStats(sd, stats)
             s2 == getStatsData(s1, stats.cid)
         IN  resolveFrameChildren(s2, addFrameStats(frame, s2[stats.cid]), i + 1)

\* improveStats without the clamp of lines 360-366
improveStats_NoClamp(frame, nextFrame) ==
    LET f1 == SetProp(frame, "deltaTime", nextFrame.startTime - frame.startTime)
    IN  SetProp(f1, "miscellaneous", f1.deltaTime - f1.total)

\* lines 357-366
improveStats(frame, nextFrame) ==
    LET f1 == SetProp(frame, "deltaTime", nextFrame.startTime - frame.startTime)
        f2 == SetProp(f1, "miscellaneous", f1.deltaTime - f1.total)
    IN  IF f2.miscellaneous < 0 THEN SetProp(f2, "miscellaneous", 0) ELSE f2

\* smoothDeltaTime without the block of lines 370-374
smoothDeltaTime_NoBootstrap(soft, frame, dt) ==
    ease(soft, frame.deltaTime, dt, EASE_FACTOR)

\* lines 370-377: this.softDeltaTime after the frame
smoothDeltaTime(soft, frame, dt) ==
    LET s1 == IF soft = 0 THEN frame.deltaTime ELSE soft
    IN  ease(s1, frame.deltaTime, dt, EASE_FACTOR)

\* this.softFPS.toFixed()
softFPSText(soft) ==
    IF soft = 0 THEN "Infinity" ELSE ToString((2000 + soft) \div (2 * soft))

\* the refresh calls made before the frame and softDeltaTime are written
refreshCalls_Early(cycle, frame, soft) ==
    (IF cycle.text.needsUpdate
     THEN << [fn |-> "setText", text |-> softFPSText(softDeltaTime)],
             [fn |-> "updateText", frame |-> frames[frame.frameId],
              softDeltaTime |-> softDeltaTime] >>
     ELSE <<>>)
    \o
    (IF cycle.graph.needsUpdate
     THEN << [fn |-> "updateGraph", frame |-> frames[frame.frameId],
              softDeltaTime |-> softDeltaTime] >>
     ELSE <<>>)

\* lines 382-394: the calls made to the fps counter and the Performance tab,
\* each with what its arguments hold when it is made
refreshCalls(cycle, frame, soft) ==
    (IF cycle.text.needsUpdate
     THEN << [fn |-> "setText", text |-> softFPSText(soft)],
             [fn |-> "updateText", frame |-> frame, softDeltaTime |-> soft] >>
     ELSE <<>>)
    \o
    (IF cycle.graph.needsUpdate
     THEN << [fn |-> "updateGraph", frame |-> frame, softDeltaTime |-> soft] >>
     ELSE <<>>)

\* lines 396-397
clearCycle(cycle) ==
    [cycle EXCEPT !.text.needsUpdate = FALSE, !.graph.needsUpdate = FALSE]

\* lines 379-380
updateCycles(cycle, dt) ==
    [cycle EXCEPT !.text = updateCycle(@, dt), !.graph = updateCycle(@, dt)]

\* the names of the functions called, in order
RECURSIVE CallNames(_)

CallNames(calls) ==
    IF calls = <<>> THEN <<>> ELSE <<Head(calls).fn>> \o CallNames(Tail(calls))

resolveFrame(id, dt) ==
    /\ id \in DOMAIN frames
    /\ LET frame     == frames[id]
           nextFrame == nextFrameOf(frames, frame)
       IN  IF nextFrame = Null
           THEN /\ lastCall' = [frameId |-> id, dt |-> dt, returned |-> "early",
                                calls |-> <<>>]
                /\ UNCHANGED <<frames, statsData, deltaTime, softDeltaTime,
                               displayCycle, cycleLog>>
           ELSE LET r      == resolveFrameChildren(statsData, zeroFrame(frame), 1)
                    f1     == improveStats(r.frame, nextFrame)
                    soft   == smoothDeltaTime(softDeltaTime, f1, dt)
                    cycle  == updateCycles(displayCycle, dt)
                    calls  == refreshCalls(cycle, f1, soft)
                IN  /\ frames' = [frames EXCEPT ![id] = f1]
                    /\ statsData' = r.statsData
                    /\ deltaTime' = f1.deltaTime
                    /\ softDeltaTime' = soft
                    /\ displayCycle' = clearCycle(cycle)
                    /\ lastCall' = [frameId |-> id, dt |-> dt, returned |-> "end",
                                    calls |-> calls]
                    /\ cycleLog' = Append(cycleLog,
                                     [ dt    |-> dt,
                                       text  |-> cycle.text.needsUpdate,
                                       graph |-> cycle.graph.needsUpdate,
                                       calls |-> CallNames(calls) ])
    /\ UNCHANGED <<sample, pc>>
    /\ UNCHANGED viewerVars
    /\ UNCHANGED uiVars

(***************************************************************************)
(* Strings are sequences of characters, so that the label conversions of   *)
(* ui/utils.js are computed and not assumed.                               *)
(***************************************************************************)
LowerOrDigit ==
    { "a", "b", "c", "d", "e", "f", "g", "h", "i", "j", "k", "l", "m", "n", "o",
      "p", "q", "r", "s", "t", "u", "v", "w", "x", "y", "z",
      "0", "1", "2", "3", "4", "5", "6", "7", "8", "9" }

Upper ==
    { "A", "B", "C", "D", "E", "F", "G", "H", "I", "J", "K", "L", "M", "N", "O",
      "P", "Q", "R", "S", "T", "U", "V", "W", "X", "Y", "Z" }

RECURSIVE Trim(_)

\* str.trim()
Trim(str) ==
    IF str = <<>> THEN str
    ELSE IF Head(str) = " " THEN Trim(Tail(str))
    ELSE IF str[Len(str)] = " " THEN Trim(SubSeq(str, 1, Len(str) - 1))
    ELSE str

RECURSIVE SpaceCamelCase(_)

\* str.replace( /([a-z0-9])([A-Z])/g, '$1 $2' )
SpaceCamelCase(str) ==
    IF Len(str) < 2 THEN str
    ELSE IF str[1] \in LowerOrDigit /\ str[2] \in Upper
         THEN <<str[1], " ">> \o SpaceCamelCase(Tail(str))
         ELSE <<str[1]>> \o SpaceCamelCase(Tail(str))

\* splitCamelCase( str ) of ui/utils.js
splitCamelCase(str) == Trim(SpaceCamelCase(str))

\* fullPath.lastIndexOf( '/' ), counted from 1, 0 when there is none
LastSlash(fullPath) ==
    LET S == { k \in DOMAIN fullPath : fullPath[k] = "/" }
    IN  IF S = {} THEN 0 ELSE CHOOSE k \in S : \A j \in S : j <= k

\* splitPath( fullPath ) of ui/utils.js
splitPath(fullPath) ==
    LET lastSlash == LastSlash(fullPath)
    IN  IF lastSlash = 0
        THEN [path |-> <<>>, name |-> Trim(fullPath)]
        ELSE [ path |-> Trim(SubSeq(fullPath, 1, lastSlash - 1)),
               name |-> Trim(SubSeq(fullPath, lastSlash + 1, Len(fullPath))) ]

\* '(unnamed)'
Unnamed == <<"(", "u", "n", "n", "a", "m", "e", "d", ")">>

\* 'Viewer - '
ViewerPrefix == <<"V", "i", "e", "w", "e", "r", " ", "-", " ">>

(***************************************************************************)
(* getCanvasDataByNode( node ): the cache, the canvasData returned and the *)
(* number of objects built, after the call.  node is the node's identity,  *)
(* the key of the Map; its id and name are read from the node.  An object  *)
(* built by the call is known by ref, its number in the order of building. *)
(***************************************************************************)
\* the canvasData of lines 266-294, built from object number alloc + 1 on
newCanvasData(node, alloc) ==
    LET canvasTarget == [ref |-> alloc + 1, width |-> 140, height |-> 140]
        id           == nodes[node].id
        label        == IF nodes[node].name = <<>> THEN Unnamed ELSE nodes[node].name
        split        == splitPath(splitCamelCase(label))
        material     == [ref |-> alloc + 2, outputNode |-> node]
        quad         == [ ref |-> alloc + 3, material |-> material.ref,
                          name |-> ViewerPrefix \o split.name ]
    IN  [ id |-> id, name |-> split.name, path |-> split.path, node |-> node,
          quad |-> quad, canvasTarget |-> canvasTarget, material |-> material ]

\* the cache looked up by the node's id instead of the node
getCanvasDataByNode_ById(cn, node, alloc) ==
    IF nodes[node].id \in DOMAIN cn
    THEN [canvasNodes |-> cn, canvasData |-> cn[nodes[node].id], allocated |-> alloc]
    ELSE LET canvasData == newCanvasData(node, alloc)
         IN  [ canvasNodes |-> (nodes[node].id :> canvasData) @@ cn,
               canvasData  |-> canvasData,
               allocated   |-> alloc + 3 ]

\* the canvasData built anew on every call
getCanvasDataByNode_NoHit(cn, node, alloc) ==
    LET canvasData == newCanvasData(node, alloc)
    IN  [ canvasNodes |-> (node :> canvasData) @@ cn,
          canvasData  |-> canvasData,
          allocated   |-> alloc + 3 ]

getCanvasDataByNode(cn, node, alloc) ==
    IF node \in DOMAIN cn
    THEN [canvasNodes |-> cn, canvasData |-> cn[node], allocated |-> alloc]
    ELSE LET canvasData == newCanvasData(node, alloc)
         IN  [ canvasNodes |-> (node :> canvasData) @@ cn,
               canvasData  |-> canvasData,
               allocated   |-> alloc + 3 ]

\* no getCanvasDataByNode call yet
NoLookup == [node |-> 0, canvasData |-> EmptyObject]

\* a call of getCanvasDataByNode( node )
lookupCanvasData(node) ==
    /\ LET r == getCanvasDataByNode(canvasNodes, node, allocated)
       IN  /\ canvasNodes' = r.canvasNodes
           /\ allocated' = r.allocated
           /\ lookup' = [node |-> node, canvasData |-> r.canvasData]
    /\ UNCHANGED <<frames, statsData, deltaTime, softDeltaTime, displayCycle,
                   lastCall, cycleLog, sample, pc, nodes>>
    /\ UNCHANGED uiVars

\* the scene gives a node another name
renameNode(node, name) ==
    /\ nodes' = [nodes EXCEPT ![node].name = name]
    /\ UNCHANGED <<frames, statsData, deltaTime, softDeltaTime, displayCycle,
                   lastCall, cycleLog, sample, pc, canvasNodes, allocated, lookup>>
    /\ UNCHANGED uiVars

\* the scene gives a node another id
renumberNode(node, id) ==
    /\ nodes' = [nodes EXCEPT ![node].id = id]
    /\ UNCHANGED <<frames, statsData, deltaTime, softDeltaTime, displayCycle,
                   lastCall, cycleLog, sample, pc, canvasNodes, allocated, lookup>>
    /\ UNCHANGED uiVars

(***************************************************************************)
(* The console: resolveConsole, resolveConsoleOnce and computeAsync.       *)
(* Messages and types are strings, the key of this.once their              *)
(* concatenation.                                                          *)
(***************************************************************************)
ComputeAsyncTip ==
    "TIP: \"computeAsync()\" was called while a \"setAnimationLoop()\" is active. This is probably not necessary, use \"compute()\" instead."

ViewerWarning == "Inspector: Viewer is only available with WebGPU."

TimestampError == "THREE.Inspector: GPU Timestamp Queries not available."

\* this.console.addMessage( type, message )
addMessage(con, type, message) == Append(con, [type |-> type, message |-> message])

\* resolveConsole( type, message ): the Console tab's messages after the call
resolveConsole(con, type, message) ==
    CASE type = "log"   -> addMessage(con, "info", message)
      [] type = "warn"  -> addMessage(con, "warn", message)
      [] type = "error" -> addMessage(con, "error", message)
      [] OTHER          -> con

\* resolveConsoleOnce with the message alone as the key
resolveConsoleOnce_KeyByMessage(o, con, type, message) ==
    LET key == message
    IN  IF ~ IsTrue(o, key)
        THEN [ once      |-> SetProp(o, key, TRUE),
               console   |-> resolveConsole(con, type, message),
               forwarded |-> TRUE ]
        ELSE [once |-> o, console |-> con, forwarded |-> FALSE]

\* resolveConsoleOnce( type, message ): this.once and the Console tab's
\* messages after the call, and whether resolveConsole was called
resolveConsoleOnce(o, con, type, message) ==
    LET key == type \o message
    IN  IF ~ IsTrue(o, key)
        THEN [ once      |-> SetProp(o, key, TRUE),
               console   |-> resolveConsole(con, type, message),
               forwarded |-> TRUE ]
        ELSE [once |-> o, console |-> con, forwarded |-> FALSE]

\* a call of resolveConsoleOnce( type, message )
callResolveConsoleOnce(type, message) ==
    LET r == resolveConsoleOnce(once, console, type, message)
    IN  /\ once' = r.once
        /\ console' = r.console
        /\ onceLog' = Append(onceLog, [ type |-> type, message |-> message,
                                        forwarded |-> r.forwarded ])

\* a call of resolveConsoleOnce from outside the class
reportOnce(type, message) ==
    /\ callResolveConsoleOnce(type, message)
    /\ UNCHANGED <<frames, statsData, deltaTime, softDeltaTime, displayCycle,
                   lastCall, cycleLog, sample, pc>>
    /\ UNCHANGED viewerVars
    /\ UNCHANGED <<renderer, consoleFunction, probes, viewer, currentNodes,
                   viewerCall>>

\* computeAsync(); without a renderer line 79 throws
computeAsync ==
    /\ renderer # Null
    /\ IF renderer.info.frame > 1 /\ renderer.animationLoop # Null
       THEN callResolveConsoleOnce("log", ComputeAsyncTip)
       ELSE UNCHANGED <<once, console, onceLog>>
    /\ UNCHANGED <<frames, statsData, deltaTime, softDeltaTime, displayCycle,
                   lastCall, cycleLog, sample, pc>>
    /\ UNCHANGED viewerVars
    /\ UNCHANGED <<renderer, consoleFunction, probes, viewer, currentNodes,
                   viewerCall>>

(***************************************************************************)
(* setRenderer( renderer ) and the callback of hasFeatureAsync.  A         *)
(* renderer is [backend, timestampQuery, info, animationLoop],             *)
(* timestampQuery what hasFeatureAsync( 'timestamp-query' ) resolves to.   *)
(* isAvailable is the host's getter, read at line 172.                     *)
(***************************************************************************)
setRenderer(r, isAvailable) ==
    /\ IF r # Null
       THEN /\ consoleFunction' = "resolveConsole"
            /\ IF isAvailable
               THEN /\ renderer' = [r EXCEPT !.backend.trackTimestamp = TRUE]
                    /\ probes' = Append(probes, [ available |-> r.timestampQuery,
                                                  delivered |-> FALSE ])
               ELSE /\ renderer' = r
                    /\ UNCHANGED probes
       ELSE /\ renderer' = r
            /\ UNCHANGED <<consoleFunction, probes>>
    /\ UNCHANGED <<frames, statsData, deltaTime, softDeltaTime, displayCycle,
                   lastCall, cycleLog, sample, pc>>
    /\ UNCHANGED viewerVars
    /\ UNCHANGED <<once, console, viewer, currentNodes, onceLog, viewerCall>>

\* the callback adding the message whatever the answer is
timestampQueryCallback_Always(con, available) ==
    addMessage(con, "error", TimestampError)

\* lines 176-184: the callback of the promise, the Console tab's messages after it
timestampQueryCallback(con, available) ==
    IF available # TRUE THEN addMessage(con, "error", TimestampError) ELSE con

\* the promise of probe i resolves and its callback runs
deliverTimestampQuery(i) ==
    /\ i \in DOMAIN probes
    /\ ~ probes[i].delivered
    /\ console' = timestampQueryCallback(console, probes[i].available)
    /\ probes' = [probes EXCEPT ![i].delivered = TRUE]
    /\ UNCHANGED <<frames, statsData, deltaTime, softDeltaTime, displayCycle,
                   lastCall, cycleLog, sample, pc>>
    /\ UNCHANGED viewerVars
    /\ UNCHANGED <<renderer, consoleFunction, once, viewer, currentNodes,
                   onceLog, viewerCall>>

(***************************************************************************)
(* resolveViewer().  The bundle of a node of the set fails cannot be       *)
(* built: new CanvasTarget( canvas ) throws, the exception leaves          *)
(* getCanvasDataByNode at line 266, nodes.map at line 327 and              *)
(* resolveViewer, which has no handler.                                    *)
(***************************************************************************)
\* this.viewer.show()
show(v) == [v EXCEPT !.isVisible = TRUE]

\* this.viewer.update( renderer, canvasDataList )
update(v, canvasDataList) ==
    [v EXCEPT !.updates = @ + 1, !.canvasDataList = canvasDataList]

RECURSIVE mapCanvasData(_, _, _, _, _)

\* line 327: nodes.map( node => this.getCanvasDataByNode( node ) ) from
\* node i on; failed is the node whose bundle could not be built, 0 if none
mapCanvasData(cn, ns, i, alloc, fails) ==
    IF i > Len(ns)
    THEN [canvasNodes |-> cn, allocated |-> alloc, list |-> <<>>, failed |-> 0]
    ELSE IF ns[i] \notin DOMAIN cn /\ ns[i] \in fails
         THEN [canvasNodes |-> cn, allocated |-> alloc, list |-> <<>>,
               failed |-> ns[i]]
         ELSE LET r    == getCanvasDataByNode(cn, ns[i], alloc)
                  rest == mapCanvasData(r.canvasNodes, ns, i + 1, r.allocated, fails)
              IN  [rest EXCEPT !.list = <<r.canvasData>> \o @]

\* resolveViewer running past the guards of lines 309-317
resolveViewer_NoGuard(fails) ==
    /\ renderer # Null
    /\ LET r == mapCanvasData(canvasNodes, currentNodes, 1, allocated, fails)
       IN  /\ canvasNodes' = r.canvasNodes
           /\ allocated' = r.allocated
           /\ lookup' = IF r.list = <<>> THEN lookup
                        ELSE [ node       |-> currentNodes[Len(r.list)],
                               canvasData |-> r.list[Len(r.list)] ]
           /\ viewer' = LET shown == IF ~ viewer.isVisible THEN show(viewer)
                                      ELSE viewer
                        IN  IF r.failed # 0 THEN shown ELSE update(shown, r.list)
           /\ viewerCall' = [ calls    |-> viewerCall.calls + 1,
                              returned |-> IF r.failed # 0 THEN "threw" ELSE "end",
                              nodes    |-> currentNodes,
                              fails    |-> fails,
                              failed   |-> r.failed,
                              refused  |-> viewerCall.refused ]
           /\ UNCHANGED <<once, console, onceLog>>
    /\ UNCHANGED <<frames, statsData, deltaTime, softDeltaTime, displayCycle,
                   lastCall, cycleLog, sample, pc, nodes>>
    /\ UNCHANGED <<renderer, consoleFunction, probes, currentNodes>>

\* resolveViewer(); with nodes selected and no renderer line 311 throws
resolveViewer(fails) ==
    /\ currentNodes = <<>> \/ renderer # Null
    /\ IF currentNodes = <<>>
       THEN /\ viewerCall' = [ calls    |-> viewerCall.calls + 1,
                               returned |-> "empty",
                               nodes    |-> currentNodes,
                               fails    |-> {},
                               failed   |-> 0,
                               refused  |-> viewerCall.refused ]
            /\ UNCHANGED <<once, console, onceLog, viewer, canvasNodes,
                           allocated, lookup>>
       ELSE IF ~ renderer.backend.isWebGPUBackend
       THEN /\ callResolveConsoleOnce("warn", ViewerWarning)
            /\ viewerCall' = [ calls    |-> viewerCall.calls + 1,
                               returned |-> "noWebGPU",
                               nodes    |-> currentNodes,
                               fails    |-> {},
                               failed   |-> 0,
                               refused  |-> viewerCall.refused + 1 ]
            /\ UNCHANGED <<viewer, canvasNodes, allocated, lookup>>
       ELSE LET r == mapCanvasData(canvasNodes, currentNodes, 1, allocated, fails)
            IN  /\ canvasNodes' = r.canvasNodes
                /\ allocated' = r.allocated
                /\ lookup' = IF r.list = <<>> THEN lookup
                             ELSE [ node       |-> currentNodes[Len(r.list)],
                                    canvasData |-> r.list[Len(r.list)] ]
                /\ viewer' = LET shown == IF ~ viewer.isVisible THEN show(viewer)
                                           ELSE viewer
                             IN  IF r.failed # 0 THEN shown
                                 ELSE update(shown, r.list)
                /\ viewerCall' = [ calls    |-> viewerCall.calls + 1,
                                   returned |-> IF r.failed # 0 THEN "threw"
                                                ELSE "end",
                                   nodes    |-> currentNodes,
                                   fails    |-> fails,
                                   failed   |-> r.failed,
                                   refused  |-> viewerCall.refused ]
                /\ UNCHANGED <<once, console, onceLog>>
    /\ UNCHANGED <<frames, statsData, deltaTime, softDeltaTime, displayCycle,
                   lastCall, cycleLog, sample, pc, nodes>>
    /\ UNCHANGED <<renderer, consoleFunction, probes, currentNodes>>

\* the host selects the nodes of the viewer
selectNodes(ns) ==
    /\ currentNodes' = ns
    /\ UNCHANGED <<frames, statsData, deltaTime, softDeltaTime, displayCycle,
                   lastCall, cycleLog, sample, pc>>
    /\ UNCHANGED viewerVars
    /\ UNCHANGED <<renderer, consoleFunction, probes, once, console, viewer,
                   onceLog, viewerCall>>

(***************************************************************************)
(* Spec: the renderer produces frames carrying any sample trees and the    *)
(* inspector resolves any of them, in any order, any number of times.      *)
(***************************************************************************)
\* the children of a frame: any sequence of sample trees, by its number of nodes
FrameChildren == [n \in 0 .. MaxFrameNodes |-> ForestsOfSize(FrameCids, n)]

\* ms between the starts of two frames
StartIncs == {4, 20}

\* this.nodeFrame.deltaTime
FrameDeltas == {10}

NoSample == <<>>

Init ==
    /\ frames = <<>>
    /\ Constructed
    /\ sample = NoSample
    /\ pc = "idle"
    /\ nodes = <<>>
    /\ lookup = NoLookup
    /\ Detached

AddFrame ==
    /\ Len(frames) < MaxFrames
    /\ \E n \in 0 .. MaxFrameNodes - FramesNodeCount(frames) :
        \E children \in FrameChildren[n], inc \in StartIncs : addFrame(children, inc)

ResolveFrame ==
    /\ Len(cycleLog) < MaxCalls
    /\ \E id \in DOMAIN frames, dt \in FrameDeltas : resolveFrame(id, dt)

Next == AddFrame \/ ResolveFrame

Spec == Init /\ [][Next]_vars

(***************************************************************************)
(* SpecCycle: frames of one sample each, resolved under any per-frame      *)
(* delta.                                                                  *)
(***************************************************************************)
CycleChildren == { << [cid |-> 1, cpu |-> 2, gpu |-> 3, children |-> <<>>] >> }

CycleDeltas == {0, 2, 5, 10}

AddCycleFrame ==
    /\ Len(frames) < MaxCycleFrames
    /\ \E children \in CycleChildren : addFrame(children, 20)

ResolveCycleFrame ==
    /\ Len(cycleLog) < MaxCycleCalls
    /\ \E id \in DOMAIN frames, dt \in CycleDeltas : resolveFrame(id, dt)

NextCycle == AddCycleFrame \/ ResolveCycleFrame

SpecCycle == Init /\ [][NextCycle]_vars

(***************************************************************************)
(* SpecViewer: the canvas cache is asked about the nodes of the scene      *)
(* while the nodes change their names and ids and frames are resolved.     *)
(***************************************************************************)
\* the identities of the scene's nodes (the keys of canvasNodes)
NodeRefs == {11, 12}

\* the values of node.id
NodeIds == {1, 2}

\* the values of node.getName(): '', 'aB', 'a/B'
NodeNames == { <<>>, <<"a", "B">>, <<"a", "/", "B">> }

InitViewer ==
    /\ frames = <<>>
    /\ Constructed
    /\ sample = NoSample
    /\ pc = "idle"
    /\ nodes \in [NodeRefs -> [id : NodeIds, name : NodeNames, cid : {1}]]
    /\ lookup = NoLookup
    /\ Detached

LookupCanvasData == \E node \in NodeRefs : lookupCanvasData(node)

RenameNode ==
    \E node \in NodeRefs, name \in NodeNames :
        name # nodes[node].name /\ renameNode(node, name)

RenumberNode ==
    \E node \in NodeRefs, id \in NodeIds :
        id # nodes[node].id /\ renumberNode(node, id)

AddViewerFrame ==
    /\ Len(frames) < MaxViewerFrames
    /\ \E children \in CycleChildren : addFrame(children, 20)

ResolveViewerFrame ==
    /\ Len(cycleLog) < MaxViewerCalls
    /\ \E id \in DOMAIN frames, dt \in FrameDeltas : resolveFrame(id, dt)

NextViewer ==
    \/ LookupCanvasData
    \/ RenameNode
    \/ RenumberNode
    \/ AddViewerFrame
    \/ ResolveViewerFrame

SpecViewer == InitViewer /\ [][NextViewer]_vars

(***************************************************************************)
(* SpecStats: resolveStats applied to one sample tree, from a store that   *)
(* earlier frames may have filled.                                         *)
(***************************************************************************)
\* a data object an earlier frame left behind
StaleData == [cpu |-> 7, gpu |-> 1, total |-> 8, initialized |-> TRUE]

PriorStores == UNION { [S -> {StaleData}] : S \in SUBSET Cids }

InitStats ==
    /\ frames = <<>>
    /\ deltaTime = 0
    /\ softDeltaTime = 0
    /\ displayCycle = NewDisplayCycle
    /\ lastCall = NoCall
    /\ cycleLog = <<>>
    /\ canvasNodes = <<>>
    /\ allocated = 0
    /\ once = EmptyObject
    /\ console = <<>>
    /\ viewer = HiddenViewer
    /\ onceLog = <<>>
    /\ viewerCall = NoViewerCall
    /\ nodes = <<>>
    /\ lookup = NoLookup
    /\ Detached
    /\ statsData \in PriorStores
    /\ sample \in SampleTrees
    /\ pc = "call"

CallResolveStats ==
    /\ pc = "call"
    /\ statsData' = resolveStats(statsData, sample)
    /\ pc' = "done"
    /\ UNCHANGED <<frames, deltaTime, softDeltaTime, displayCycle, lastCall,
                   cycleLog, sample>>
    /\ UNCHANGED viewerVars
    /\ UNCHANGED uiVars

RECURSIVE SiblingOrders(_), ForestOrders(_, _, _)

\* the child sequences made of f[p[i]], f[p[i + 1]], ..., each in any order
\* of its own siblings
ForestOrders(f, p, i) ==
    IF i > Len(f) THEN { <<>> }
    ELSE { <<t>> \o rest : t \in SiblingOrders(f[p[i]]),
                           rest \in ForestOrders(f, p, i + 1) }

\* the sample trees that differ from t in the order of siblings only
SiblingOrders(t) ==
    { [t EXCEPT !.children = g] :
        g \in UNION { ForestOrders(t.children, p, 1) :
                        p \in Permutations(1 .. Len(t.children)) } }

\* the next frame reports the same samples, the siblings in any order
CallResolveStatsAgain ==
    /\ pc = "done"
    /\ \E stats \in SiblingOrders(sample) :
        /\ sample' = stats
        /\ statsData' = resolveStats(statsData, stats)
    /\ pc' = "again"
    /\ UNCHANGED <<frames, deltaTime, softDeltaTime, displayCycle, lastCall,
                   cycleLog>>
    /\ UNCHANGED viewerVars
    /\ UNCHANGED uiVars

NextStats == CallResolveStats \/ CallResolveStatsAgain

SpecStats == InitStats /\ [][NextStats]_vars

(***************************************************************************)
(* SpecConsole: resolveConsoleOnce is called with any type and message of  *)
(* a small set, from outside and by computeAsync, under any renderer.      *)
(***************************************************************************)
OnceTypes == {"log", "warn", "error"}

OnceMessages == {ComputeAsyncTip, ViewerWarning}

\* what renderer.getAnimationLoop() returns when a loop is set
AnimationLoop == [fn |-> "animate"]

ConsoleRenderers ==
    [ backend        : [isWebGPUBackend : {TRUE}, trackTimestamp : {FALSE}],
      timestampQuery : {TRUE},
      info           : [frame : {1, 2}],
      animationLoop  : {Null, AnimationLoop} ]

SetConsoleRenderer ==
    /\ Len(probes) < MaxConsoleProbes
    /\ \E r \in ConsoleRenderers, isAvailable \in BOOLEAN : setRenderer(r, isAvailable)

ComputeAsync ==
    /\ Len(onceLog) < MaxOnceCalls
    /\ computeAsync

ReportOnce ==
    /\ Len(onceLog) < MaxOnceCalls
    /\ \E type \in OnceTypes, message \in OnceMessages : reportOnce(type, message)

NextConsole == SetConsoleRenderer \/ ComputeAsync \/ ReportOnce

SpecConsole == Init /\ [][NextConsole]_vars

(***************************************************************************)
(* SpecResolveViewer: resolveViewer is called while the host changes the   *)
(* selection and the renderer; the bundle of any node may fail to build.   *)
(***************************************************************************)
\* the values of this.currentNodes
Selections == { <<>>, <<11>>, <<11, 12>>, <<12, 11>> }

SceneNodes ==
    (11 :> [id |-> 1, name |-> <<"a", "B">>, cid |-> 1])
    @@ (12 :> [id |-> 2, name |-> <<>>, cid |-> 1])

ViewerRenderers ==
    [ backend        : [isWebGPUBackend : BOOLEAN, trackTimestamp : {FALSE}],
      timestampQuery : {TRUE},
      info           : [frame : {1}],
      animationLoop  : {Null} ]

InitResolveViewer ==
    /\ frames = <<>>
    /\ Constructed
    /\ sample = NoSample
    /\ pc = "idle"
    /\ nodes = SceneNodes
    /\ lookup = NoLookup
    /\ Detached

SetViewerRenderer == \E r \in ViewerRenderers : setRenderer(r, FALSE)

SelectNodes == \E ns \in Selections : ns # currentNodes /\ selectNodes(ns)

ResolveViewer ==
    /\ viewerCall.calls < MaxResolveViewerCalls
    /\ \E fails \in SUBSET NodeRefs : resolveViewer(fails)

NextResolveViewer == SetViewerRenderer \/ SelectNodes \/ ResolveViewer

SpecResolveViewer == InitResolveViewer /\ [][NextResolveViewer]_vars

(***************************************************************************)
(* SpecProbe: setRenderer starts the timestamp-query probe and its         *)
(* callback runs at any later point, among resolveFrame and resolveViewer  *)
(* calls.                                                                  *)
(***************************************************************************)
ProbeRenderers ==
    [ backend        : [isWebGPUBackend : {TRUE}, trackTimestamp : {FALSE}],
      timestampQuery : BOOLEAN,
      info           : [frame : {1}],
      animationLoop  : {Null} ]

ProbeSelections == { <<>>, <<11>> }

SetProbeRenderer ==
    /\ Len(probes) < MaxProbes
    /\ \E r \in ProbeRenderers, isAvailable \in BOOLEAN : setRenderer(r, isAvailable)

DeliverTimestampQuery == \E i \in DOMAIN probes : deliverTimestampQuery(i)

AddProbeFrame ==
    /\ Len(frames) < MaxProbeFrames
    /\ \E children \in CycleChildren : addFrame(children, 20)

ResolveProbeFrame ==
    /\ Len(cycleLog) < MaxProbeCalls
    /\ \E id \in DOMAIN frames, dt \in FrameDeltas : resolveFrame(id, dt)

SelectProbeNodes == \E ns \in ProbeSelections : ns # currentNodes /\ selectNodes(ns)

ResolveProbeViewer ==
    /\ viewerCall.calls < MaxProbeViewerCalls
    /\ resolveViewer({})

NextProbe ==
    \/ SetProbeRenderer
    \/ DeliverTimestampQuery
    \/ AddProbeFrame
    \/ ResolveProbeFrame
    \/ SelectProbeNodes
    \/ ResolveProbeViewer

SpecProbe == InitResolveViewer /\ [][NextProbe]_vars

(***************************************************************************)
(* What the claims speak of.                                               *)
(***************************************************************************)
RECURSIVE SubtreeCpu(_), SubtreeGpu(_), ForestCpu(_), ForestGpu(_)

\* the sum of cpu (of gpu) over every node of the subtree
SubtreeCpu(t) == t.cpu + ForestCpu(t.children)
ForestCpu(f) == IF f = <<>> THEN 0 ELSE SubtreeCpu(Head(f)) + ForestCpu(Tail(f))
SubtreeGpu(t) == t.gpu + ForestGpu(t.children)
ForestGpu(f) == IF f = <<>> THEN 0 ELSE SubtreeGpu(Head(f)) + ForestGpu(Tail(f))

RECURSIVE SharesCidBelow(_, _), AncestorSharesCid(_)

\* some node of forest f carries a cid of the set cids
SharesCidBelow(f, cids) ==
    \E k \in DOMAIN f : f[k].cid \in cids \/ SharesCidBelow(f[k].children, cids)

\* some node of t carries the cid of one of its proper ancestors in t
AncestorSharesCid(t) ==
    \/ SharesCidBelow(t.children, {t.cid})
    \/ \E k \in DOMAIN t.children : AncestorSharesCid(t.children[k])

Resolved(frame) == "total" \in DOMAIN frame

Max(a, b) == IF a > b THEN a ELSE b

(***************************************************************************)
(* C1 (tree-sum): after resolveStats(node) the data stored under node.cid  *)
(* holds the sums of cpu, of gpu and of cpu + gpu over every node of the   *)
(* subtree, whichever cids the nodes carry.                                *)
(***************************************************************************)
C1_TreeSum ==
    pc = "done" =>
        LET data == statsData[sample.cid]
        IN  /\ data.cpu = SubtreeCpu(sample)
            /\ data.gpu = SubtreeGpu(sample)
            /\ data.total = SubtreeCpu(sample) + SubtreeGpu(sample)

\* The tree-sum of C1 for the trees in which no node carries the cid of one
\* of its ancestors.
TreeSumWithoutSharingAncestor ==
    (pc = "done" /\ ~ AncestorSharesCid(sample)) =>
        LET data == statsData[sample.cid]
        IN  /\ data.cpu = SubtreeCpu(sample)
            /\ data.gpu = SubtreeGpu(sample)
            /\ data.total = SubtreeCpu(sample) + SubtreeGpu(sample)

(***************************************************************************)
(* C2: every aggregated data object of statsData and every resolved frame  *)
(* has total = cpu + gpu, after any sequence of resolveFrame calls.        *)
(***************************************************************************)
C2_TotalIsCpuPlusGpu ==
    /\ \A cid \in DOMAIN statsData :
           "total" \in DOMAIN statsData[cid] =>
               statsData[cid].total = statsData[cid].cpu + statsData[cid].gpu
    /\ \A id \in DOMAIN frames :
           Resolved(frames[id]) =>
               frames[id].total = frames[id].cpu + frames[id].gpu

\* a resolved frame holding a sample whose child carries the sample's own cid
\* and other measurements
C2_Witness ==
    \E id \in DOMAIN frames :
           /\ Resolved(frames[id])
           /\ \E k \in DOMAIN frames[id].children :
                  LET stats == frames[id].children[k]
                  IN  /\ stats.children # <<>>
                      /\ stats.children[1].cid = stats.cid
                      /\ stats.children[1].cpu # stats.cpu

(***************************************************************************)
(* C3: a resolved frame has deltaTime = nextFrame.startTime - startTime    *)
(* and miscellaneous = max(0, deltaTime - total), never negative; frame A  *)
(* (startTime 0, one child cpu 2, gpu 3) resolved against frame B          *)
(* (startTime 20) has total 5, deltaTime 20, miscellaneous 15.             *)
(***************************************************************************)
IsFrameA(frame) ==
    /\ frame.startTime = 0
    /\ Len(frame.children) = 1
    /\ frame.children[1].cpu = 2
    /\ frame.children[1].gpu = 3
    /\ frame.children[1].children = <<>>

C3_DeltaAndMiscellaneous ==
    \A id \in DOMAIN frames :
        "deltaTime" \in DOMAIN frames[id] =>
            /\ id + 1 \in DOMAIN frames
            /\ frames[id].deltaTime = frames[id + 1].startTime - frames[id].startTime
            /\ frames[id].miscellaneous = Max(0, frames[id].deltaTime - frames[id].total)
            /\ frames[id].miscellaneous >= 0
            /\ frames[id].total > frames[id].deltaTime => frames[id].miscellaneous = 0
            /\ (IsFrameA(frames[id]) /\ frames[id + 1].startTime = 20) =>
                   /\ frames[id].total = 5
                   /\ frames[id].deltaTime = 20
                   /\ frames[id].miscellaneous = 15

\* frame A resolved against frame B
C3_Witness ==
    /\ Len(frames) = 2
    /\ IsFrameA(frames[1])
    /\ frames[2].startTime = 20
    /\ Resolved(frames[1])
    /\ frames[1].miscellaneous = 15

(***************************************************************************)
(* C4 (one frame behind): a resolveFrame call for a frame whose successor  *)
(* does not exist changes nothing of the frames, statsData, deltaTime,     *)
(* softDeltaTime and the cycle timers and makes no refresh call; a frame   *)
(* is only ever written in a state where its successor exists.             *)
(***************************************************************************)
C4_OneFrameBehind ==
    [][ /\ (lastCall' # lastCall /\ lastCall'.frameId + 1 \notin DOMAIN frames) =>
               /\ UNCHANGED <<frames, statsData, deltaTime, softDeltaTime,
                              displayCycle, cycleLog>>
               /\ lastCall'.calls = <<>>
        /\ \A id \in DOMAIN frames :
               frames'[id] # frames[id] => id + 1 \in DOMAIN frames ]_vars

\* resolveFrame has just returned early for the newest frame, after an
\* older frame was resolved
C4_Witness ==
    /\ lastCall.returned = "early"
    /\ lastCall.frameId = Len(frames)
    /\ Len(frames) >= 2
    /\ Resolved(frames[1])
    /\ ~ Resolved(frames[Len(frames)])
    /\ statsData # <<>>

(***************************************************************************)
(* The cycle timers as the log of the resolved calls shows them.           *)
(***************************************************************************)
Fired(entry, kind) == IF kind = "text" THEN entry.text ELSE entry.graph

\* the last call before call i on which the timer fired, 0 if there is none
LastFired(kind, i) ==
    LET S == { j \in 1 .. i - 1 : Fired(cycleLog[j], kind) }
    IN  IF S = {} THEN 0 ELSE CHOOSE j \in S : \A k \in S : k <= j

RECURSIVE SumDt(_, _)

\* the deltas of the calls from .. to added up
SumDt(from, to) == IF from > to THEN 0 ELSE cycleLog[to].dt + SumDt(from, to - 1)

\* the time accumulated at call i since the timer last fired
Accumulated(kind, i) == SumDt(LastFired(kind, i) + 1, i)

\* how often fn occurs among the names
CountCalls(names, fn) == Cardinality({ k \in DOMAIN names : names[k] = fn })

RECURSIVE Refreshes(_, _)

\* how often fn was called in the first n resolved calls
Refreshes(fn, n) ==
    IF n = 0 THEN 0 ELSE CountCalls(cycleLog[n].calls, fn) + Refreshes(fn, n - 1)

(***************************************************************************)
(* C5 (timer firing): a timer fires on exactly the calls at which the time *)
(* accumulated since it last fired reaches its duration, and is then back  *)
(* at 0; with duration 0.25 and deltas 0.1, 0.1, 0.1 the text timer fires  *)
(* on the third call and not before.                                       *)
(***************************************************************************)
C5_TimerFiring ==
    /\ \A i \in DOMAIN cycleLog :
           /\ cycleLog[i].text = (Accumulated("text", i) >= TextDuration)
           /\ cycleLog[i].graph = (Accumulated("graph", i) >= GraphDuration)
    /\ displayCycle.text.time =
           SumDt(LastFired("text", Len(cycleLog) + 1) + 1, Len(cycleLog))
    /\ displayCycle.graph.time =
           SumDt(LastFired("graph", Len(cycleLog) + 1) + 1, Len(cycleLog))
    /\ (Len(cycleLog) >= 3 /\ \A i \in 1 .. 3 : cycleLog[i].dt = 10) =>
           /\ ~ cycleLog[1].text
           /\ ~ cycleLog[2].text
           /\ cycleLog[3].text

\* deltas adding up to exactly 0.25 fired the text timer on the last of three
\* calls, and the deltas 0.1, 0.1, 0.1 can be taken as well
C5_Witness ==
    /\ Len(cycleLog) = 3
    /\ SumDt(1, 3) = TextDuration
    /\ cycleLog[1].dt > 0
    /\ cycleLog[2].dt > 0
    /\ cycleLog[3].text
    /\ displayCycle.text.time = 0
    /\ ~ cycleLog[1].text
    /\ ~ cycleLog[2].text

(***************************************************************************)
(* C6 (timer bound): between resolveFrame calls both timers have           *)
(* 0 <= time < duration, and after a call on which a timer fired its time  *)
(* is exactly 0, whatever the overshoot past the duration.                 *)
(***************************************************************************)
C6_TimerBound ==
    /\ 0 <= displayCycle.text.time
    /\ displayCycle.text.time < displayCycle.text.duration
    /\ 0 <= displayCycle.graph.time
    /\ displayCycle.graph.time < displayCycle.graph.duration
    /\ cycleLog # <<>> =>
           /\ cycleLog[Len(cycleLog)].text => displayCycle.text.time = 0
           /\ cycleLog[Len(cycleLog)].graph => displayCycle.graph.time = 0

\* the text timer has just fired with an overshoot, and the graph timer holds
\* time short of its duration
C6_Witness ==
    /\ cycleLog # <<>>
    /\ cycleLog[Len(cycleLog)].text
    /\ Accumulated("text", Len(cycleLog)) > TextDuration
    /\ displayCycle.text.time = 0
    /\ \E n \in DOMAIN cycleLog :
           /\ ~ cycleLog[n].graph
           /\ Accumulated("graph", n) > 0

C7_TextRefreshesNotFewer ==
    Refreshes("updateText", Len(cycleLog)) >= Refreshes("updateGraph", Len(cycleLog))

ComputedProps == {"cpu", "gpu", "total", "deltaTime", "miscellaneous"}

C8_RefreshGating ==
    /\ \A i \in DOMAIN cycleLog :
           /\ CountCalls(cycleLog[i].calls, "updateText") =
                  (IF Accumulated("text", i) >= TextDuration THEN 1 ELSE 0)
           /\ CountCalls(cycleLog[i].calls, "updateGraph") =
                  (IF Accumulated("graph", i) >= GraphDuration THEN 1 ELSE 0)
    /\ lastCall.returned = "end" =>
           /\ CallNames(lastCall.calls) = cycleLog[Len(cycleLog)].calls
           /\ \A k \in DOMAIN lastCall.calls :
                  lastCall.calls[k].fn \in {"updateText", "updateGraph"} =>
                      /\ ComputedProps \subseteq DOMAIN lastCall.calls[k].frame
                      /\ lastCall.calls[k].frame = frames[lastCall.frameId]
                      /\ lastCall.calls[k].frame.deltaTime = deltaTime
                      /\ lastCall.calls[k].softDeltaTime = softDeltaTime
    /\ lastCall.returned # "end" => lastCall.calls = <<>>
    /\ ~ displayCycle.text.needsUpdate
    /\ ~ displayCycle.graph.needsUpdate

\* the latest call refreshed text and graph for a frame resolved a second
\* time, an earlier call refreshed the graph alone and another one nothing
C8_Witness ==
    /\ lastCall.returned = "end"
    /\ CallNames(lastCall.calls) = <<"setText", "updateText", "updateGraph">>
    /\ softDeltaTime > 0
    /\ \E i \in DOMAIN cycleLog : cycleLog[i].calls = <<"updateGraph">>
    /\ \E i \in DOMAIN cycleLog : cycleLog[i].calls = <<>>

(***************************************************************************)
(* C9 (cache hit): once a node has its canvasData, every later             *)
(* getCanvasDataByNode call for it returns that canvasData, with the id,   *)
(* name, path, quad, canvasTarget and material it was built with, and      *)
(* builds nothing, whatever lookups, frame resolutions and changes of the  *)
(* node's name or id come in between; an entry of the cache is never       *)
(* replaced or removed.                                                    *)
(***************************************************************************)
C9_CacheHitIdempotent ==
    [][ /\ \A node \in DOMAIN canvasNodes :
               /\ node \in DOMAIN canvasNodes'
               /\ canvasNodes'[node] = canvasNodes[node]
        /\ ( /\ lookup' # lookup \/ allocated' # allocated \/ canvasNodes' # canvasNodes
             /\ lookup'.node \in DOMAIN canvasNodes ) =>
               /\ lookup'.canvasData = canvasNodes[lookup'.node]
               /\ allocated' = allocated
               /\ canvasNodes' = canvasNodes ]_vars

\* node 11 was looked up again after node 12 got its canvasData and a frame
\* was resolved; its canvasData still has the id and name it was built
\* with, which the node no longer has
C9_Witness ==
    /\ DOMAIN canvasNodes = {11, 12}
    /\ canvasNodes[11].quad.ref < canvasNodes[12].quad.ref
    /\ lookup.node = 11
    /\ lookup.canvasData = canvasNodes[11]
    /\ lookup.canvasData.id # nodes[11].id
    /\ lookup.canvasData.name = <<"a", " ", "B">>
    /\ nodes[11].name = <<>>
    /\ allocated = 6
    /\ statsData # <<>>

(***************************************************************************)
(* C10 (keyspace separation): two nodes never share a canvasData, each     *)
(* canvasData holds the node it was asked for and objects of its own, also *)
(* when the nodes have the same id, name or cid; the canvas cache is keyed *)
(* by nodes and the stats store by cids, a lookup leaves the stats store   *)
(* alone and a frame resolution the canvas cache.                          *)
(***************************************************************************)
BundleRefs(canvasData) ==
    {canvasData.quad.ref, canvasData.canvasTarget.ref, canvasData.material.ref}

C10_Separate ==
    /\ \A n \in DOMAIN canvasNodes :
           /\ canvasNodes[n].node = n
           /\ canvasNodes[n].material.outputNode = n
           /\ canvasNodes[n].quad.material = canvasNodes[n].material.ref
           /\ \A m \in DOMAIN canvasNodes \ {n} :
                  /\ canvasNodes[n] # canvasNodes[m]
                  /\ BundleRefs(canvasNodes[n]) \cap BundleRefs(canvasNodes[m]) = {}
    /\ lookup.node # 0 => lookup.canvasData.node = lookup.node
    /\ DOMAIN canvasNodes \subseteq DOMAIN nodes
    /\ \A cid \in DOMAIN statsData :
           \E id \in DOMAIN frames : SharesCidBelow(frames[id].children, {cid})

C10_KeyspaceSeparation ==
    /\ [] C10_Separate
    /\ [][ /\ (canvasNodes' # canvasNodes \/ lookup' # lookup \/ allocated' # allocated) =>
                  statsData' = statsData
           /\ statsData' # statsData =>
                  /\ canvasNodes' = canvasNodes
                  /\ allocated' = allocated
                  /\ lookup' = lookup ]_vars

\* two nodes of the same id, name and cid, the cid being a key of the stats
\* store, have a canvasData each
C10_Witness ==
    /\ DOMAIN canvasNodes = {11, 12}
    /\ canvasNodes[11].id = canvasNodes[12].id
    /\ canvasNodes[11].name = canvasNodes[12].name
    /\ canvasNodes[11].path = canvasNodes[12].path
    /\ nodes[11] = nodes[12]
    /\ nodes[11].id = canvasNodes[11].id
    /\ nodes[11].cid \in DOMAIN statsData

(***************************************************************************)
(* C12 (smoother bootstrap): a resolveFrame call that resolves a frame     *)
(* while softDeltaTime is 0 leaves softDeltaTime equal to that frame's     *)
(* deltaTime, whatever the per-frame delta this.nodeFrame.deltaTime is.    *)
(***************************************************************************)
C12_SmootherBootstrap ==
    [][ (Len(cycleLog') = Len(cycleLog) + 1 /\ softDeltaTime = 0) =>
            /\ softDeltaTime' = frames'[lastCall'.frameId].deltaTime
            /\ softDeltaTime' = deltaTime' ]_vars

\* the first frame was resolved under a per-frame delta shorter than the
\* ease factor and softDeltaTime is the frame's deltaTime
C12_Witness ==
    /\ Len(cycleLog) = 1
    /\ cycleLog[1].dt \in {0, 2, 5}
    /\ frames[lastCall.frameId].deltaTime = 20
    /\ softDeltaTime = 20

RECURSIVE CidsOf(_), InteriorCids(_)

\* the cids of the nodes of t
CidsOf(t) == {t.cid} \cup UNION { CidsOf(t.children[k]) : k \in DOMAIN t.children }

\* the cids of the nodes of t that have children
InteriorCids(t) ==
    (IF t.children = <<>> THEN {} ELSE {t.cid})
    \cup UNION { InteriorCids(t.children[k]) : k \in DOMAIN t.children }

(***************************************************************************)
(* C15 (sibling order): resolving the same sample tree with the children   *)
(* of its nodes in another order leaves the entry of every node that has   *)
(* children as it was, whichever cids the nodes carry.                     *)
(***************************************************************************)
C15_SiblingOrder ==
    [][ (pc = "done" /\ pc' = "again") =>
            \A cid \in InteriorCids(sample) : statsData'[cid] = statsData[cid] ]_vars

\* The sibling-order independence of C15 for the trees whose nodes carry
\* cids that are all different.
SiblingOrderWithDistinctCids ==
    [][ (pc = "done" /\ pc' = "again"
            /\ Cardinality(CidsOf(sample)) = NodeCount(sample)) =>
            \A cid \in InteriorCids(sample) : statsData'[cid] = statsData[cid] ]_vars

(***************************************************************************)
(* C16 (overwrite): after resolveStats(root) the entries of the cids of    *)
(* the tree are what the call leaves on an empty store, whatever the store *)
(* held before, and a second call with the same tree changes nothing.      *)
(***************************************************************************)
C16_Overwrites ==
    /\ [](pc = "done" =>
            \A cid \in CidsOf(sample) :
                statsData[cid] = resolveStats(<<>>, sample)[cid])
    /\ [][ (pc = "done" /\ pc' = "again" /\ sample' = sample) =>
                statsData' = statsData ]_vars

\* a tree of three nodes, two of them sharing a cid, was resolved twice on a
\* store that held an entry of an earlier frame for each of its cids
C16_Witness ==
    /\ pc = "again"
    /\ NodeCount(sample) = 3
    /\ Cardinality(CidsOf(sample)) = 2
    /\ statsData = resolveStats([cid \in Cids |-> StaleData], sample)
    /\ statsData[sample.cid].cpu # StaleData.cpu

(***************************************************************************)
(* C17 (entry lifecycle): looking up a cid that has an entry leaves the    *)
(* store as it is; a call creates the entries of the cids of its tree,     *)
(* removes none, and leaves the entry of every other cid as it was.        *)
(***************************************************************************)
C17_EntryLifecycle ==
    /\ [](\A cid \in DOMAIN statsData : getStatsData(statsData, cid) = statsData)
    /\ [][ /\ DOMAIN statsData \subseteq DOMAIN statsData'
           /\ pc' # pc => DOMAIN statsData' = DOMAIN statsData \cup CidsOf(sample')
           /\ \A cid \in DOMAIN statsData \ CidsOf(sample') :
                  statsData'[cid] = statsData[cid] ]_vars

\* the call created an entry and left the entry of an earlier frame, whose
\* cid is not in the tree, as it was
C17_Witness ==
    /\ pc = "done"
    /\ \E cid \in DOMAIN statsData \ CidsOf(sample) : statsData[cid] = StaleData
    /\ \E cid \in CidsOf(sample) : statsData[cid].cpu # StaleData.cpu
    /\ Cardinality(DOMAIN statsData) = MaxCid

RECURSIVE InstancesCpu(_, _), InstancesGpu(_, _), ForestCids(_)

\* the sum, over the nodes of forest f that carry cid, of the cpu (the gpu)
\* of the node's subtree
InstancesCpu(f, cid) ==
    IF f = <<>> THEN 0
    ELSE (IF Head(f).cid = cid THEN SubtreeCpu(Head(f)) ELSE 0)
         + InstancesCpu(Head(f).children, cid) + InstancesCpu(Tail(f), cid)

InstancesGpu(f, cid) ==
    IF f = <<>> THEN 0
    ELSE (IF Head(f).cid = cid THEN SubtreeGpu(Head(f)) ELSE 0)
         + InstancesGpu(Head(f).children, cid) + InstancesGpu(Tail(f), cid)

\* the cids of the nodes of forest f
ForestCids(f) == UNION { CidsOf(f[k]) : k \in DOMAIN f }

(***************************************************************************)
(* C18 (per-cid accumulation): when resolveFrame has resolved a frame, the *)
(* entry of every cid of the frame's samples holds the sums of the         *)
(* aggregated cpu, gpu and total of all the sample nodes carrying the cid. *)
(***************************************************************************)
C18_PerCidAccumulation ==
    lastCall.returned = "end" =>
        LET children == frames[lastCall.frameId].children
        IN  \A cid \in ForestCids(children) :
                /\ statsData[cid].cpu = InstancesCpu(children, cid)
                /\ statsData[cid].gpu = InstancesGpu(children, cid)
                /\ statsData[cid].total =
                       InstancesCpu(children, cid) + InstancesGpu(children, cid)

\* The entry of a cid that one sample node of the frame carries holds the
\* node's aggregate.
EntryOfSingleInstance ==
    lastCall.returned = "end" =>
        LET children == frames[lastCall.frameId].children
        IN  \A cid \in ForestCids(children) :
                ForestNodeCount(children) = Cardinality(ForestCids(children)) =>
                    /\ statsData[cid].cpu = InstancesCpu(children, cid)
                    /\ statsData[cid].gpu = InstancesGpu(children, cid)

\* The accumulation of C18 for the frames whose samples have no children,
\* so that no sample shares a cid with an ancestor.
AccumulationOverLeafSamples ==
    lastCall.returned = "end" =>
        LET children == frames[lastCall.frameId].children
        IN  (\A k \in DOMAIN children : children[k].children = <<>>) =>
                \A cid \in ForestCids(children) :
                    /\ statsData[cid].cpu = InstancesCpu(children, cid)
                    /\ statsData[cid].gpu = InstancesGpu(children, cid)

\* the number of messages of the Console tab that are message with this type
CountMessages(type, message) ==
    Cardinality({ k \in DOMAIN console :
                    console[k] = [type |-> type, message |-> message] })

\* the type resolveConsole gives a message of the Console tab
ConsoleType(type) == IF type = "log" THEN "info" ELSE type

\* two resolveConsoleOnce calls with the same type and the same message
SamePair(a, b) == a.type = b.type /\ a.message = b.message

(***************************************************************************)
(* C11 (one-shot logging): a resolveConsoleOnce call with a type of log,   *)
(* warn, error is forwarded to resolveConsole exactly when no earlier call *)
(* had the same type and message, so the Console tab holds each reported   *)
(* pair once, whichever other pairs were reported before it.               *)
(***************************************************************************)
C11_OneShot ==
    /\ \A i \in DOMAIN onceLog :
          onceLog[i].forwarded <=>
              ~ \E j \in 1 .. (i - 1) : SamePair(onceLog[j], onceLog[i])
    /\ \A type \in OnceTypes, message \in OnceMessages :
          CountMessages(ConsoleType(type), message) =
              IF \E i \in DOMAIN onceLog :
                     onceLog[i].type = type /\ onceLog[i].message = message
              THEN 1 ELSE 0

\* the tip was reported as a log, then as a warning, then as a log again:
\* the first two calls were forwarded, the third was not
C11_Witness ==
    /\ Len(onceLog) = 3
    /\ onceLog[1] = [type |-> "log", message |-> ComputeAsyncTip, forwarded |-> TRUE]
    /\ onceLog[2] = [type |-> "warn", message |-> ComputeAsyncTip, forwarded |-> TRUE]
    /\ onceLog[3] = [type |-> "log", message |-> ComputeAsyncTip, forwarded |-> FALSE]
    /\ Len(console) = 2

(***************************************************************************)
(* C13 (local failure): when the bundle of a node could not be built in a  *)
(* resolveViewer call, the node has no entry in the cache and every other  *)
(* node of the call whose bundle can be built has its entry and was handed *)
(* to the viewer.                                                          *)
(***************************************************************************)
C13_FailureIsLocal ==
    viewerCall.returned = "threw" =>
        /\ viewerCall.failed \notin DOMAIN canvasNodes
        /\ \A k \in DOMAIN viewerCall.nodes :
              viewerCall.nodes[k] \notin viewerCall.fails =>
                  /\ viewerCall.nodes[k] \in DOMAIN canvasNodes
                  /\ \E j \in DOMAIN viewer.canvasDataList :
                        viewer.canvasDataList[j] = canvasNodes[viewerCall.nodes[k]]

\* The part of C13 about the cache itself: the node whose bundle could not
\* be built has no entry and the entries of the cache stay as they were.
FailureLeavesCache ==
    /\ [](viewerCall.returned = "threw" =>
            viewerCall.failed \notin DOMAIN canvasNodes)
    /\ [][ \A node \in DOMAIN canvasNodes :
              node \in DOMAIN canvasNodes' /\ canvasNodes'[node] = canvasNodes[node] ]_vars

(***************************************************************************)
(* C14 (fire-and-forget probe): the callback of the timestamp-query probe, *)
(* whenever it runs, leaves the frames, statsData, the cycle timers,       *)
(* deltaTime, softDeltaTime and the canvas cache as they are; it adds one  *)
(* error message to the Console tab when the feature is not available and  *)
(* nothing otherwise.                                                      *)
(***************************************************************************)
C14_ProbeOnlyLogs ==
    [][ \A i \in DOMAIN probes :
          (~ probes[i].delivered /\ probes' = [probes EXCEPT ![i].delivered = TRUE]) =>
              /\ UNCHANGED <<frames, statsData, displayCycle, deltaTime,
                             softDeltaTime, canvasNodes, viewer, once>>
              /\ console' = IF probes[i].available THEN console
                            ELSE Append(console, [ type    |-> "error",
                                                   message |-> TimestampError ]) ]_vars

\* the callback has run with the feature not available, a frame is resolved
\* and the viewer updated
C14_Witness ==
    /\ \E i \in DOMAIN probes : probes[i].delivered /\ ~ probes[i].available
    /\ CountMessages("error", TimestampError) = 1
    /\ Len(cycleLog) = 1
    /\ softDeltaTime = 20
    /\ viewer.updates = 1
    /\ DOMAIN canvasNodes = {11}

(***************************************************************************)
(* C19 (viewer guard): a resolveViewer call with no node selected, or with *)
(* a backend that is not WebGPU, leaves the canvas cache and the Viewer    *)
(* tab as they are (no entry, no show, no update); with nodes selected and *)
(* no WebGPU the first such call adds the warning to the console and the   *)
(* later ones add nothing.                                                 *)
(***************************************************************************)
C19_ViewerGuard ==
    /\ [][ (viewerCall'.calls = viewerCall.calls + 1
              /\ (currentNodes = <<>> \/ ~ renderer.backend.isWebGPUBackend)) =>
              /\ canvasNodes' = canvasNodes
              /\ viewer' = viewer
              /\ console' = IF currentNodes # <<>> /\ viewerCall.refused = 0
                            THEN Append(console, [ type    |-> "warn",
                                                   message |-> ViewerWarning ])
                            ELSE console ]_vars
    /\ [](CountMessages("warn", ViewerWarning) =
              IF viewerCall.refused > 0 THEN 1 ELSE 0)

\* the second call refused for want of WebGPU, the viewer showing what an
\* earlier call under WebGPU gave it
C19_Witness ==
    /\ viewerCall.returned = "noWebGPU"
    /\ viewerCall.refused = 2
    /\ viewer.isVisible
    /\ viewer.updates = 1
    /\ DOMAIN canvasNodes = {11, 12}
    /\ CountMessages("warn", ViewerWarning) = 1

====
